---- MODULE Spec2Model ----
(***************************************************************************)
(* StorageNet node core: the chain manager (src/blockchain/chain.py) and   *)
(* the mempool (src/blockchain/mempool.py), with the collaborators they    *)
(* call (Block, Transaction, Consensus, the repositories, the P2P network) *)
(* modelled from the design document, since their code is not part of the  *)
(* two source files.                                                       *)
(*                                                                         *)
(* Python values are encoded so that every comparison is well typed:       *)
(*   None / "" / []   as the empty tuple <<>>  (all three are falsy);      *)
(*   Optional[Block]  as <<>> or <<block>>;                                *)
(*   a hash           as the tuple of the fields it is computed over (a    *)
(*                    collision-free hash); the literal "0" as ZERO_HASH;  *)
(*   an absent validator as 0.                                             *)
(***************************************************************************)
EXTENDS Integers, Sequences, FiniteSets, TLC

\* ------------------------------------------------------------- bounds
MaxTime == 1        \* the clock runs 0..MaxTime
MaxTxId == 3        \* transaction contents are 1..MaxTxId
MaxChain == 3       \* add_block is not called on a chain of MaxChain blocks
MaxRows == 3        \* no add_block and no restart once the block table holds MaxRows rows
MaxKey == 1         \* validator private keys are 1..MaxKey

\* Mempool.max_size. The source sets 1000; the model scales it down so that a
\* full pool is reachable.
max_size == 2

\* Blockchain.__init__'s default difficulty.
DEFAULT_DIFFICULTY == 4

ZERO_HASH == <<>>
None == <<>>

\* ------------------------------------------------------- transactions
\* Transaction.calculate_hash: the content hash over the value fields (id
\* stands for sender, recipient, amount and data), without tx_hash.
calculate_hash(tx) == <<tx.id, tx.timestamp>>

\* A well-formed transaction: its stored tx_hash is its content hash.
Tx(id, ts) == [id |-> id, timestamp |-> ts, tx_hash |-> <<id, ts>>]

\* The transactions a caller may submit: well-formed ones (content id is
\* stamped id % 2, so that timestamps tie and differ), ones with no stored
\* hash, and ones whose stored hash is that of other content.
ValidTxs == {Tx(id, id % 2) : id \in 1..MaxTxId}
SubmittedTxs ==
    ValidTxs
    \cup {[t EXCEPT !.tx_hash = None] : t \in {Tx(1, 1)}}
    \cup {[t EXCEPT !.tx_hash = <<2, 0>>] : t \in {Tx(1, 1)}}

\* The genesis transaction of _create_genesis_block: sender "0", amount 0
\* (content 0), stamped when it is created.
genesis_tx(t) == Tx(0, t)

\* ------------------------------------------------------------- blocks
RECURSIVE TxHashes(_)
TxHashes(txs) ==
    IF txs = <<>> THEN <<>> ELSE <<Head(txs).tx_hash>> \o TxHashes(Tail(txs))

\* Block.calculate_hash: the self-hash over all header fields and the nonce.
block_hash(b) ==
    <<b.index, b.timestamp, TxHashes(b.transactions), b.previous_hash,
      b.difficulty, b.nonce>>

\* The numeric value of a hash, as the difficulty predicate reads it.
HashValue(h) == 5 * h[1] + 3 * h[2] + Len(h[3]) + Len(h[4]) + h[6]

RECURSIVE Pow2(_)
Pow2(n) == IF n = 0 THEN 1 ELSE 2 * Pow2(n - 1)

\* The difficulty predicate of Consensus: the hash's value is below the
\* target, here a multiple of 2^difficulty.
meets_difficulty(h, d) == Len(h) = 6 /\ HashValue(h) % Pow2(d) = 0

\* Block(...): a built block, neither mined nor signed.
Block(index, timestamp, transactions, previous_hash, difficulty) ==
    [index |-> index, timestamp |-> timestamp, transactions |-> transactions,
     previous_hash |-> previous_hash, difficulty |-> difficulty,
     nonce |-> 0, hash |-> None, validator |-> 0, block_signature |-> None]

\* Consensus.proof_of_work: the first nonce, from 0, whose hash satisfies the
\* difficulty predicate; the block with nonce and hash set.
proof_of_work(b) ==
    LET ok(n) == meets_difficulty(block_hash([b EXCEPT !.nonce = n]), b.difficulty)
        nonce == CHOOSE n \in 0..(Pow2(b.difficulty) - 1) :
                    ok(n) /\ \A m \in 0..(n - 1) : ~ok(m)
    IN  [b EXCEPT !.nonce = nonce, !.hash = block_hash([b EXCEPT !.nonce = nonce])]

\* The signing credential: the public key of a private key, a signature over
\* a hash, and its verification.
public_key(key) == 10 + key
sign(key, h) == <<public_key(key), h>>
verify_signature(pub, sig, h) == sig = <<pub, h>>

\* Block.sign_block after new_block.validator = <public key>.
sign_block(b, key) ==
    [b EXCEPT !.validator = public_key(key), !.block_signature = sign(key, b.hash)]

\* ---------------------------------------------------------- consensus
\* Consensus.verify_block, against the predecessor when there is one.
verify_block(b, prev) ==
    /\ b.hash = block_hash(b)
    /\ meets_difficulty(b.hash, b.difficulty)
    /\ prev # None => b.previous_hash = prev[1].hash
    /\ b.index # 0 => verify_signature(b.validator, b.block_signature, b.hash)

\* Consensus.is_chain_valid.
is_chain_valid(ch) ==
    \A i \in 1..Len(ch) :
        IF i = 1
        THEN /\ ch[1].previous_hash = ZERO_HASH
             /\ ch[1].index = 0
             /\ verify_block(ch[1], None)
        ELSE /\ verify_block(ch[i], <<ch[i - 1]>>)
             /\ ch[i].index = ch[i - 1].index + 1

\* Consensus.cumulative_difficulty: the sum of 2^difficulty over the chain.
RECURSIVE cumulative_difficulty(_)
cumulative_difficulty(ch) ==
    IF ch = <<>> THEN 0
    ELSE Pow2(Head(ch).difficulty) + cumulative_difficulty(Tail(ch))

\* ------------------------------------------------------------ storage
\* The persisted state: the blocks table (a row's id is its position), the
\* transactions table (rows [block_id, tx]) and the mempool table (tx_hash
\* keys).
EmptyDb == [blocks |-> <<>>, txs |-> <<>>, mempool |-> {}]

\* BlockRepository.save_block: one more row; the new block_id is its position.
save_block(d, b) == [d EXCEPT !.blocks = Append(@, [b EXCEPT !.transactions = <<>>])]

\* TransactionRepository.save_transactions_bulk / save_transaction.
save_transactions_bulk(d, txs, block_id) ==
    [d EXCEPT !.txs = @ \o [i \in 1..Len(txs) |-> [block_id |-> block_id, tx |-> txs[i]]]]

\* The transactions stored for a block row, in insertion order.
RECURSIVE TxsOf(_, _)
TxsOf(rows, block_id) ==
    IF rows = <<>> THEN <<>>
    ELSE (IF Head(rows).block_id = block_id THEN <<Head(rows).tx>> ELSE <<>>)
         \o TxsOf(Tail(rows), block_id)

\* BlockRepository.get_block_count.
get_block_count(d) == Len(d.blocks)

\* BlockRepository.get_block_by_index: the first row of that index with its
\* transactions, or None.
get_block_by_index(d, index) ==
    LET ps == {p \in 1..Len(d.blocks) : d.blocks[p].index = index}
    IN  IF ps = {} THEN None
        ELSE LET p == CHOOSE q \in ps : \A r \in ps : q <= r
             IN  <<[d.blocks[p] EXCEPT !.transactions = TxsOf(d.txs, p)]>>

\* ------------------------------------------------------ chain manager
\* Blockchain._reset_blockchain: the three tables dropped and recreated.
reset_blockchain(d) == EmptyDb

\* A failed save is swallowed: the call returns with no block.
create_genesis_block_Swallows(d, difficulty, t, fail) ==
    LET gtx == genesis_tx(t)
        genesis_block == proof_of_work(Block(0, 0, <<gtx>>, ZERO_HASH, difficulty))
        d1 == save_block(d, genesis_block)
    IN  IF fail # "none" THEN [raised |-> FALSE, db |-> d, block |-> None]
        ELSE [raised |-> FALSE, db |-> save_transactions_bulk(d1, <<gtx>>, Len(d1.blocks)),
              block |-> <<genesis_block>>]

\* Blockchain._create_genesis_block. fail names the persistence call that
\* raises: "none", "save_block" or "save_transaction".
create_genesis_block(d, difficulty, t, fail) ==
    LET gtx == genesis_tx(t)
        genesis_block == proof_of_work(Block(0, 0, <<gtx>>, ZERO_HASH, difficulty))
        d1 == save_block(d, genesis_block)
        block_id == Len(d1.blocks)
    IN  IF fail = "save_block" THEN [raised |-> TRUE, db |-> d, block |-> None]
        ELSE IF fail = "save_transaction" THEN [raised |-> TRUE, db |-> d1, block |-> None]
        ELSE [raised |-> FALSE, db |-> save_transactions_bulk(d1, <<gtx>>, block_id),
              block |-> <<genesis_block>>]

\* Blockchain.load_chain.
load_chain(d) ==
    LET block_count == get_block_count(d)
        missing == \E index \in 0..(block_count - 1) : get_block_by_index(d, index) = None
        loaded == [i \in 1..block_count |-> get_block_by_index(d, i - 1)[1]]
    IN  IF missing THEN <<>>
        ELSE IF loaded = <<>> \/ ~is_chain_valid(loaded) THEN <<>>
        ELSE loaded

\* What may fail while the constructor runs: init_db and the reads of
\* load_chain, the persistence calls of the first genesis attempt,
\* _reset_blockchain, and the persistence calls of the genesis attempt that
\* follows a reset.
GenesisFaults == {"none", "save_block", "save_transaction"}
InitFaults ==
    [init_db : BOOLEAN, load : BOOLEAN, genesis1 : GenesisFaults,
     reset : BOOLEAN, genesis2 : GenesisFaults]

\* Blockchain.__init__. raised: the constructor raised (no object exists);
\* reset: _reset_blockchain ran to completion.
Blockchain_init(d, difficulty, t, f) ==
    LET failed(db1, didReset) ==
            [raised |-> TRUE, chain |-> <<>>, db |-> db1, reset |-> didReset]
        ready(ch, db1, didReset) ==
            [raised |-> FALSE, chain |-> ch, db |-> db1, reset |-> didReset]
        \* lines 33-36: the except branch
        recover(db1) ==
            IF f.reset THEN failed(db1, FALSE)
            ELSE LET g == create_genesis_block(reset_blockchain(db1), difficulty, t, f.genesis2)
                 IN  IF g.raised THEN failed(g.db, TRUE) ELSE ready(g.block, g.db, TRUE)
        loaded == load_chain(d)
    IN  IF f.init_db \/ f.load THEN recover(d)
        ELSE IF loaded = <<>>
        THEN \* line 25: _initialize_new_chain, with no reset before it
             LET g == create_genesis_block(d, difficulty, t, f.genesis1)
             IN  IF g.raised THEN recover(g.db) ELSE ready(g.block, g.db, FALSE)
        ELSE IF ~is_chain_valid(loaded)
        THEN \* lines 28-31
             IF f.reset THEN recover(d)
             ELSE LET g == create_genesis_block(reset_blockchain(d), difficulty, t, f.genesis1)
                  IN  IF g.raised THEN recover(g.db) ELSE ready(g.block, g.db, TRUE)
        ELSE ready(loaded, d, FALSE)

\* Blockchain.get_last_block.
get_last_block(ch) == IF ch = <<>> THEN None ELSE <<ch[Len(ch)]>>

\* What may fail in add_block's persistence.
AddBlockFaults == {"none", "save_block", "save_transactions_bulk"}

\* The empty batch let through.
add_block_rejects_LastBlockOnly(ch, transactions) == get_last_block(ch) = None

\* add_block, lines 116-123: the batch is empty or the chain has no last block.
add_block_rejects(ch, transactions) ==
    transactions = <<>> \/ get_last_block(ch) = None

\* The new block linked to the last block's predecessor.
build_block_StaleLink(last_block, transactions, t, difficulty) ==
    Block(last_block.index + 1, t, transactions, last_block.previous_hash, difficulty)

\* add_block, lines 126-132: the block built on the last one.
build_block(last_block, transactions, t, difficulty) ==
    Block(last_block.index + 1, t, transactions, last_block.hash, difficulty)

\* The block is signed before it is mined: the signature is over the unset hash.
mine_and_sign_SignFirst(built, key) == proof_of_work(sign_block(built, key))

\* add_block, lines 135-143: proof-of-work, then validator and signature.
mine_and_sign(built, key) == sign_block(proof_of_work(built), key)

\* The block appended before it is persisted.
persist_and_append_AppendFirst(ch, d, new_block, transactions, fail) ==
    LET d1 == save_block(d, new_block)
        block_id == Len(d1.blocks)
        ch1 == Append(ch, new_block)
    IN  IF fail = "save_block"
        THEN [ret |-> None, chain |-> ch1, db |-> d, saves |-> 1]
        ELSE IF fail = "save_transactions_bulk"
        THEN [ret |-> None, chain |-> ch1, db |-> d1, saves |-> 2]
        ELSE [ret |-> <<new_block>>, chain |-> ch1,
              db |-> save_transactions_bulk(d1, transactions, block_id), saves |-> 2]

\* add_block, lines 146-156: save_block, save_transactions_bulk, and only then
\* the append; an exception of either call is caught and None returned.
persist_and_append(ch, d, new_block, transactions, fail) ==
    LET d1 == save_block(d, new_block)
        block_id == Len(d1.blocks)
    IN  IF fail = "save_block"
        THEN [ret |-> None, chain |-> ch, db |-> d, saves |-> 1]
        ELSE IF fail = "save_transactions_bulk"
        THEN [ret |-> None, chain |-> ch, db |-> d1, saves |-> 2]
        ELSE [ret |-> <<new_block>>, chain |-> Append(ch, new_block),
              db |-> save_transactions_bulk(d1, transactions, block_id), saves |-> 2]

\* Blockchain.add_block. ret: the new block or None; pow: proof-of-work runs;
\* saves: persistence calls made.
add_block(ch, d, difficulty, transactions, key, t, fail) ==
    IF add_block_rejects(ch, transactions)
    THEN [ret |-> None, chain |-> ch, db |-> d, pow |-> 0, saves |-> 0]
    ELSE LET last_block == get_last_block(ch)[1]
             new_block == mine_and_sign(build_block(last_block, transactions, t, difficulty), key)
             r == persist_and_append(ch, d, new_block, transactions, fail)
         IN  [ret |-> r.ret, chain |-> r.chain, db |-> r.db, pow |-> 1, saves |-> r.saves]

\* Line 172 of resolve_conflicts: new_chain = None; nothing is fetched from
\* the nodes.
fetched_chain(nodes) == None

\* The chain is cut back to its first block while False is returned.
resolve_conflicts_Truncates(ch, nodes) ==
    [ret |-> FALSE, chain |-> SubSeq(ch, 1, 1)]

\* Blockchain.resolve_conflicts.
resolve_conflicts(ch, nodes) ==
    LET new_chain == fetched_chain(nodes)
        max_cumulative_diff == cumulative_difficulty(ch)
    IN  IF /\ new_chain # <<>>
           /\ is_chain_valid(new_chain)
           /\ cumulative_difficulty(new_chain) > max_cumulative_diff
        THEN [ret |-> TRUE, chain |-> new_chain]
        ELSE [ret |-> FALSE, chain |-> ch]

\* ------------------------------------------------------------ mempool
\* self.transactions is a dict keyed by tx_hash; a dict keeps insertion
\* order, so it is a sequence of transactions with distinct tx_hash.
PoolHashes(pool) == {pool[i].tx_hash : i \in 1..Len(pool)}

\* self.transactions[tx.tx_hash] = tx
PoolPut(pool, tx) ==
    IF tx.tx_hash \in PoolHashes(pool)
    THEN [i \in 1..Len(pool) |-> IF pool[i].tx_hash = tx.tx_hash THEN tx ELSE pool[i]]
    ELSE Append(pool, tx)

\* del self.transactions[tx_hash], when the key is there
PoolDel(pool, h) == SelectSeq(pool, LAMBDA tx : tx.tx_hash # h)

\* Mempool.__init__ with _load_from_db: the SELECT is executed and its rows
\* are not read; the mapping starts empty.
Mempool_init(d) == <<>>

\* What may fail in add_transaction: the broadcast or the INSERT.
AddTxFaults == {"none", "broadcast", "persist"}

\* add_transaction, line 36: no stored hash, or not the content hash.
invalid_hash(tx) == tx.tx_hash = None \/ tx.tx_hash # calculate_hash(tx)

\* No duplicate check.
already_in_pool_Never(pool, tx) == FALSE

\* add_transaction, line 40.
already_in_pool(pool, tx) == tx.tx_hash \in PoolHashes(pool)

\* The capacity check off by one.
pool_full_OffByOne(pool) == Len(pool) > max_size

\* add_transaction, line 44.
pool_full(pool) == Len(pool) >= max_size

\* No network handle attached: nothing is broadcast.
broadcasts_None(pool, tx) == <<>>

\* add_transaction, lines 48-50: the broadcast_transaction calls (p2p_network
\* is set by __init__, so hasattr holds).
broadcasts(pool, tx) == IF tx.tx_hash \notin PoolHashes(pool) THEN <<tx>> ELSE <<>>

\* Mempool.add_transaction: the checks, the broadcast, the in-memory insert,
\* then the INSERT OR IGNORE; any exception is caught and False returned.
\* broadcast: the broadcast_transaction calls that were made.
add_transaction(pool, d, tx, fail) ==
    LET rejected == [ret |-> FALSE, transactions |-> pool, db |-> d, broadcast |-> <<>>]
        sent == broadcasts(pool, tx)
        pool1 == PoolPut(pool, tx)
    IN  IF invalid_hash(tx) THEN rejected
        ELSE IF already_in_pool(pool, tx) THEN rejected
        ELSE IF pool_full(pool) THEN rejected
        ELSE IF sent # <<>> /\ fail = "broadcast" THEN rejected
        ELSE IF fail = "persist"
        THEN [ret |-> FALSE, transactions |-> pool1, db |-> d, broadcast |-> sent]
        ELSE [ret |-> TRUE, transactions |-> pool1,
              db |-> [d EXCEPT !.mempool = @ \cup {tx.tx_hash}], broadcast |-> sent]

\* sorted(..., key=lambda tx: tx.timestamp): a stable sort.
RECURSIVE InsertByTimestamp(_, _)
InsertByTimestamp(s, tx) ==
    IF s = <<>> THEN <<tx>>
    ELSE IF Head(s).timestamp <= tx.timestamp
         THEN <<Head(s)>> \o InsertByTimestamp(Tail(s), tx)
         ELSE <<tx>> \o s

\* The mapping's own order, unsorted.
sorted_by_timestamp_Unsorted(s) == s

RECURSIVE sorted_by_timestamp(_)
sorted_by_timestamp(s) ==
    IF s = <<>> THEN <<>>
    ELSE InsertByTimestamp(sorted_by_timestamp(SubSeq(s, 1, Len(s) - 1)), s[Len(s)])

\* A Python slice s[:n].
Slice(s, n) ==
    LET k == IF n >= 0 THEN (IF n < Len(s) THEN n ELSE Len(s))
             ELSE (IF Len(s) + n > 0 THEN Len(s) + n ELSE 0)
    IN  SubSeq(s, 1, k)

\* Mempool.get_transactions.
get_transactions(pool, max_count) == Slice(sorted_by_timestamp(pool), max_count)

\* What may fail in remove_transactions and clear_expired: opening the
\* connection, the first DELETE, or the commit.
DeleteFaults == {"none", "connect", "execute", "commit"}

\* The loop shared by remove_transactions and clear_expired: per hash, the
\* in-memory delete and then the DELETE statement; the commit ends it.
\* Only the first listed hash is deleted.
PoolDelAll_HeadOnly(pool, hashes) ==
    IF hashes = <<>> THEN pool ELSE PoolDel(pool, Head(hashes))

RECURSIVE PoolDelAll(_, _)
PoolDelAll(pool, hashes) ==
    IF hashes = <<>> THEN pool ELSE PoolDelAll(PoolDel(pool, Head(hashes)), Tail(hashes))

DeleteLoop(pool, d, hashes, fail) ==
    LET all == {hashes[i] : i \in 1..Len(hashes)}
    IN  IF fail = "connect" THEN [raised |-> TRUE, transactions |-> pool, db |-> d]
        ELSE IF hashes # <<>> /\ fail = "execute"
        THEN [raised |-> TRUE, transactions |-> PoolDel(pool, Head(hashes)), db |-> d]
        ELSE IF fail = "commit"
        THEN [raised |-> TRUE, transactions |-> PoolDelAll(pool, hashes), db |-> d]
        ELSE [raised |-> FALSE, transactions |-> PoolDelAll(pool, hashes),
              db |-> [d EXCEPT !.mempool = @ \ all]]

\* Mempool.remove_transactions.
remove_transactions(pool, d, tx_hashes, fail) == DeleteLoop(pool, d, tx_hashes, fail)

\* Mempool.clear_expired.
clear_expired(pool, d, t, expiry_seconds, fail) ==
    LET keep(tx) == t - tx.timestamp > expiry_seconds
        expired == TxHashes(SelectSeq(pool, keep))
    IN  DeleteLoop(pool, d, expired, fail)

\* -------------------------------------------------------------- state
VARIABLES
    chain,          \* Blockchain.chain
    bc,             \* the Blockchain object: "Uninitialized", "Ready", "Failed"
    db,             \* the persisted tables
    transactions,   \* Mempool.transactions
    mp,             \* the Mempool object: "Uninitialized", "Ready"
    now,            \* time.time()
    last,           \* the last call: its name, arguments, result and the
                    \* collaborator calls it made (broadcasts, proof-of-work runs,
                    \* persistence calls)
    calls           \* per thread, the add_block or add_transaction call it is
                    \* in the middle of: the statement it is at and its locals

vars == <<chain, bc, db, transactions, mp, now, last, calls>>

\* The threads that call into one Blockchain or one Mempool object, and a
\* thread that is in no call.
Threads == {"t1", "t2"}
Idle == [pc |-> "idle"]

\* ------------------------------------------------------------- inputs
Keys == 1..MaxKey

\* Transaction batches handed to add_block.
Batches == {<<>>, <<Tx(2, 0), Tx(1, 1)>>}

\* The chains the peers hold: a block mined and signed on top of a chain, as
\* add_block builds it.
PeerBlock(ch, difficulty, txs) ==
    mine_and_sign(build_block(ch[Len(ch)], txs, 1, difficulty), 1)
PeerGenesis(difficulty) ==
    proof_of_work(Block(0, 0, <<genesis_tx(0)>>, ZERO_HASH, difficulty))
PeerChain1 == <<PeerGenesis(DEFAULT_DIFFICULTY)>>
PeerChain2 == Append(PeerChain1, PeerBlock(PeerChain1, DEFAULT_DIFFICULTY, <<Tx(1, 1)>>))
PeerChain3 == Append(PeerChain2, PeerBlock(PeerChain2, DEFAULT_DIFFICULTY, <<Tx(2, 0)>>))
PeerChain4 == Append(PeerChain3, PeerBlock(PeerChain3, DEFAULT_DIFFICULTY, <<Tx(1, 1)>>))
PeerChain5 == Append(PeerChain4, PeerBlock(PeerChain4, DEFAULT_DIFFICULTY, <<Tx(2, 0)>>))
\* one block, harder: as heavy as two blocks of the default difficulty
PeerChainHard == <<PeerGenesis(DEFAULT_DIFFICULTY + 1)>>
\* a broken link: the second block does not name the first one's hash
PeerChainBroken ==
    Append(PeerChain1, [PeerChain2[2] EXCEPT !.previous_hash = PeerChain2[2].hash])

\* nodes is a list of node addresses; the chain each address serves.
Nodes == {"empty", "one", "two", "five", "hard", "broken"}
ChainAt(node) ==
    CASE node = "empty" -> <<>>
      [] node = "one" -> PeerChain1
      [] node = "two" -> PeerChain2
      [] node = "five" -> PeerChain5
      [] node = "hard" -> PeerChainHard
      [] node = "broken" -> PeerChainBroken

\* nodes: no peer, or one peer.
NodeLists == {<<>>} \cup {<<n>> : n \in Nodes}

\* Arguments of the mempool calls.
MaxCounts == -1..(max_size + 1)
Expiries == 0..1
HashLists ==
    {<<>>, <<Tx(1, 1).tx_hash>>, <<Tx(2, 0).tx_hash>>,
     <<Tx(1, 1).tx_hash, Tx(2, 0).tx_hash>>, <<Tx(1, 1).tx_hash, Tx(1, 1).tx_hash>>}

\* --------------------------------------------------------------- Init
Init ==
    /\ chain = <<>>
    /\ bc = "Uninitialized"
    /\ db = EmptyDb
    /\ transactions = <<>>
    /\ mp = "Uninitialized"
    /\ now = 0
    /\ last = [op |-> "none"]
    /\ calls = [th \in Threads |-> Idle]

\* ------------------------------------------------------------ actions
\* time passes
Tick ==
    /\ now < MaxTime
    /\ now' = now + 1
    /\ last' = [op |-> "tick"]
    /\ UNCHANGED <<chain, bc, db, transactions, mp, calls>>

\* Blockchain(difficulty)
BlockchainInit ==
    /\ bc = "Uninitialized"
    /\ \E f \in InitFaults :
        LET r == Blockchain_init(db, DEFAULT_DIFFICULTY, now, f)
        IN  /\ chain' = r.chain
            /\ bc' = IF r.raised THEN "Failed" ELSE "Ready"
            /\ db' = r.db
            /\ last' = [op |-> "Blockchain", raised |-> r.raised, reset |-> r.reset]
    /\ UNCHANGED <<transactions, mp, now, calls>>

\* chain.add_block(transactions, validator_private_key)
AddBlock ==
    /\ bc = "Ready"
    /\ Len(chain) < MaxChain
    /\ Len(db.blocks) < MaxRows
    /\ \E txs \in Batches, key \in Keys, fail \in AddBlockFaults :
        LET r == add_block(chain, db, DEFAULT_DIFFICULTY, txs, key, now, fail)
        IN  /\ chain' = r.chain
            /\ db' = r.db
            /\ last' = [op |-> "add_block", transactions |-> txs, key |-> key,
                        fail |-> fail, ret |-> r.ret, pow |-> r.pow, saves |-> r.saves]
    /\ UNCHANGED <<bc, transactions, mp, now, calls>>

\* chain.resolve_conflicts(nodes)
ResolveConflicts ==
    /\ bc = "Ready"
    /\ \E nodes \in NodeLists :
        LET r == resolve_conflicts(chain, nodes)
        IN  /\ chain' = r.chain
            /\ last' = [op |-> "resolve_conflicts", nodes |-> nodes, ret |-> r.ret]
    /\ UNCHANGED <<bc, db, transactions, mp, now, calls>>

\* The process ends: the objects in memory are gone, the tables stay.
Restart ==
    /\ bc # "Uninitialized" \/ mp # "Uninitialized"
    /\ Len(db.blocks) < MaxRows
    /\ chain' = <<>>
    /\ bc' = "Uninitialized"
    /\ transactions' = <<>>
    /\ mp' = "Uninitialized"
    /\ last' = [op |-> "restart"]
    /\ calls' = [th \in Threads |-> Idle]
    /\ UNCHANGED <<db, now>>

\* While the node is down, the stored hash of one block row is altered in the
\* persisted state (at most one row of the table is altered at a time).
Corrupt ==
    /\ bc = "Uninitialized"
    /\ mp = "Uninitialized"
    /\ \A q \in 1..Len(db.blocks) : db.blocks[q].hash[6] = db.blocks[q].nonce
    /\ \E p \in 1..Len(db.blocks) : db' = [db EXCEPT !.blocks[p].hash[6] = @ + 1]
    /\ last' = [op |-> "corrupt"]
    /\ UNCHANGED <<chain, bc, transactions, mp, now, calls>>

\* Mempool()
MempoolInit ==
    /\ mp = "Uninitialized"
    /\ transactions' = Mempool_init(db)
    /\ mp' = "Ready"
    /\ last' = [op |-> "Mempool"]
    /\ UNCHANGED <<chain, bc, db, now, calls>>

\* mempool.add_transaction(tx)
AddTransaction ==
    /\ mp = "Ready"
    /\ \E tx \in SubmittedTxs, fail \in AddTxFaults :
        LET r == add_transaction(transactions, db, tx, fail)
        IN  /\ transactions' = r.transactions
            /\ db' = r.db
            /\ last' = [op |-> "add_transaction", tx |-> tx, fail |-> fail,
                        ret |-> r.ret, broadcast |-> r.broadcast]
    /\ UNCHANGED <<chain, bc, mp, now, calls>>

\* mempool.get_transactions(max_count)
GetTransactions ==
    /\ mp = "Ready"
    /\ \E max_count \in MaxCounts :
        last' = [op |-> "get_transactions", max_count |-> max_count,
                 ret |-> get_transactions(transactions, max_count)]
    /\ UNCHANGED <<chain, bc, db, transactions, mp, now, calls>>

\* mempool.remove_transactions(tx_hashes)
RemoveTransactions ==
    /\ mp = "Ready"
    /\ \E tx_hashes \in HashLists, fail \in DeleteFaults :
        LET r == remove_transactions(transactions, db, tx_hashes, fail)
        IN  /\ transactions' = r.transactions
            /\ db' = r.db
            /\ last' = [op |-> "remove_transactions", tx_hashes |-> tx_hashes,
                        fail |-> fail, raised |-> r.raised]
    /\ UNCHANGED <<chain, bc, mp, now, calls>>

\* mempool.clear_expired(expiry_seconds)
ClearExpired ==
    /\ mp = "Ready"
    /\ \E expiry_seconds \in Expiries, fail \in DeleteFaults :
        LET r == clear_expired(transactions, db, now, expiry_seconds, fail)
        IN  /\ transactions' = r.transactions
            /\ db' = r.db
            /\ last' = [op |-> "clear_expired", expiry_seconds |-> expiry_seconds,
                        fail |-> fail, raised |-> r.raised]
    /\ UNCHANGED <<chain, bc, mp, now, calls>>

\* ------------------------------------------- add_block, statement-wise
\* add_block holds no lock, so calls made from several threads interleave
\* between the statements that touch the object or the tables. A call is
\* four steps: it reads the tip and builds, mines and signs the block (lines
\* 116-143); save_block (147); save_transactions_bulk (148); the append (151).

\* lines 116-143: the checks, get_last_block, Block(...), the proof-of-work
\* and the signature
AddBlockRead(th) ==
    /\ bc = "Ready"
    /\ calls[th] = Idle
    /\ Len(chain) < MaxChain
    /\ Len(db.blocks) < MaxRows
    /\ \E txs \in Batches, key \in Keys :
        IF add_block_rejects(chain, txs)
        THEN /\ calls' = calls
             /\ last' = [op |-> "add_block: rejected"]
        ELSE /\ calls' = [calls EXCEPT ![th] =
                            [pc |-> "save_block", transactions |-> txs,
                             new_block |-> mine_and_sign(
                                 build_block(get_last_block(chain)[1], txs, now,
                                             DEFAULT_DIFFICULTY), key)]]
             /\ last' = [op |-> "add_block: mined"]
    /\ UNCHANGED <<chain, bc, db, transactions, mp, now>>

\* line 147: BlockRepository.save_block, or its exception and return None
AddBlockSaveBlock(th) ==
    /\ calls[th].pc = "save_block"
    /\ \E raises \in BOOLEAN :
        IF raises
        THEN /\ db' = db
             /\ calls' = [calls EXCEPT ![th] = Idle]
             /\ last' = [op |-> "add_block: failed"]
        ELSE /\ db' = save_block(db, calls[th].new_block)
             /\ calls' = [calls EXCEPT ![th] =
                            [pc |-> "save_transactions_bulk",
                             transactions |-> calls[th].transactions,
                             new_block |-> calls[th].new_block,
                             block_id |-> Len(db.blocks) + 1]]
             /\ last' = [op |-> "add_block: block saved"]
    /\ UNCHANGED <<chain, bc, transactions, mp, now>>

\* line 148: TransactionRepository.save_transactions_bulk, or its exception
\* and return None
AddBlockSaveTransactions(th) ==
    /\ calls[th].pc = "save_transactions_bulk"
    /\ \E raises \in BOOLEAN :
        IF raises
        THEN /\ db' = db
             /\ calls' = [calls EXCEPT ![th] = Idle]
             /\ last' = [op |-> "add_block: failed"]
        ELSE /\ db' = save_transactions_bulk(db, calls[th].transactions,
                                             calls[th].block_id)
             /\ calls' = [calls EXCEPT ![th] =
                            [pc |-> "append", new_block |-> calls[th].new_block]]
             /\ last' = [op |-> "add_block: transactions saved"]
    /\ UNCHANGED <<chain, bc, transactions, mp, now>>

\* lines 151-153: self.chain.append(new_block); return new_block
AddBlockAppend(th) ==
    /\ calls[th].pc = "append"
    /\ chain' = Append(chain, calls[th].new_block)
    /\ calls' = [calls EXCEPT ![th] = Idle]
    /\ last' = [op |-> "add_block: appended"]
    /\ UNCHANGED <<bc, db, transactions, mp, now>>

\* ------------------------------------- add_transaction, statement-wise
\* add_transaction holds no lock either. A call is four steps: the checks
\* (lines 36-46), the broadcast (48-50), the in-memory insert (53) and the
\* INSERT into the mempool table (56-75).

\* lines 36-46: the hash check, the duplicate check and the capacity check
AddTransactionCheck(th) ==
    /\ mp = "Ready"
    /\ calls[th] = Idle
    /\ \E tx \in SubmittedTxs :
        IF invalid_hash(tx) \/ already_in_pool(transactions, tx) \/ pool_full(transactions)
        THEN /\ calls' = calls
             /\ last' = [op |-> "add_transaction: rejected"]
        ELSE /\ calls' = [calls EXCEPT ![th] = [pc |-> "broadcast", tx |-> tx]]
             /\ last' = [op |-> "add_transaction: checked"]
    /\ UNCHANGED <<chain, bc, db, transactions, mp, now>>

\* lines 48-50: broadcast_transaction, or its exception and return False
AddTransactionBroadcast(th) ==
    /\ calls[th].pc = "broadcast"
    /\ \E raises \in BOOLEAN :
        IF raises /\ broadcasts(transactions, calls[th].tx) # <<>>
        THEN /\ calls' = [calls EXCEPT ![th] = Idle]
             /\ last' = [op |-> "add_transaction: failed"]
        ELSE /\ calls' = [calls EXCEPT ![th] = [pc |-> "insert", tx |-> calls[th].tx]]
             /\ last' = [op |-> "add_transaction: broadcast"]
    /\ UNCHANGED <<chain, bc, db, transactions, mp, now>>

\* line 53: self.transactions[tx.tx_hash] = tx
AddTransactionInsert(th) ==
    /\ calls[th].pc = "insert"
    /\ transactions' = PoolPut(transactions, calls[th].tx)
    /\ calls' = [calls EXCEPT ![th] = [pc |-> "persist", tx |-> calls[th].tx]]
    /\ last' = [op |-> "add_transaction: inserted"]
    /\ UNCHANGED <<chain, bc, db, mp, now>>

\* lines 56-78: the INSERT OR IGNORE and return True, or its exception and
\* return False
AddTransactionPersist(th) ==
    /\ calls[th].pc = "persist"
    /\ \E raises \in BOOLEAN :
        IF raises
        THEN /\ db' = db
             /\ last' = [op |-> "add_transaction: failed"]
        ELSE /\ db' = [db EXCEPT !.mempool = @ \cup {calls[th].tx.tx_hash}]
             /\ last' = [op |-> "add_transaction: persisted"]
    /\ calls' = [calls EXCEPT ![th] = Idle]
    /\ UNCHANGED <<chain, bc, transactions, mp, now>>

\* ----------------------------------------------------- specifications
\* The chain manager alone, the mempool alone, and the whole node.
NextChain == Tick \/ BlockchainInit \/ AddBlock \/ ResolveConflicts \/ Restart \/ Corrupt
NextMempool ==
    Tick \/ MempoolInit \/ AddTransaction \/ GetTransactions \/ RemoveTransactions
    \/ ClearExpired \/ Restart
Next == NextChain \/ NextMempool

SpecChain == Init /\ [][NextChain]_vars
SpecMempool == Init /\ [][NextMempool]_vars
Spec == Init /\ [][Next]_vars

\* Blockchain(), then add_block called from the threads.
NextChainThreads ==
    \/ BlockchainInit
    \/ \E th \in Threads :
        \/ AddBlockRead(th)
        \/ AddBlockSaveBlock(th)
        \/ AddBlockSaveTransactions(th)
        \/ AddBlockAppend(th)
SpecChainThreads == Init /\ [][NextChainThreads]_vars

\* Mempool(), then add_transaction called from the threads.
NextMempoolThreads ==
    \/ MempoolInit
    \/ \E th \in Threads :
        \/ AddTransactionCheck(th)
        \/ AddTransactionBroadcast(th)
        \/ AddTransactionInsert(th)
        \/ AddTransactionPersist(th)
SpecMempoolThreads == Init /\ [][NextMempoolThreads]_vars

\* A block producer on one node: transactions are admitted to the Mempool,
\* a batch is pulled with get_transactions and handed to add_block.
NextProducer ==
    BlockchainInit \/ MempoolInit \/ AddTransaction \/ GetTransactions \/ AddBlock
SpecProducer == Init /\ [][NextProducer]_vars

\* ------------------------------------------------------------- claims
Range(f) == {f[i] : i \in 1..Len(f)}

\* The candidates of a resolve_conflicts call that are valid and strictly
\* heavier than the chain ch.
BetterCandidates(nodes, ch) ==
    {c \in {ChainAt(n) : n \in Range(nodes)} :
        /\ c # <<>>
        /\ is_chain_valid(c)
        /\ cumulative_difficulty(c) > cumulative_difficulty(ch)}

\* C1: resolve_conflicts replaces the chain if and only if a candidate is
\* valid and strictly heavier: with such a candidate among the nodes' chains
\* the chain becomes that candidate and the call returns True; otherwise the
\* chain is unchanged and the call returns False.
C1_ReplacesIffValidAndHeavier ==
    [][last'.op = "resolve_conflicts" =>
        IF BetterCandidates(last'.nodes, chain) # {}
        THEN chain' \in BetterCandidates(last'.nodes, chain) /\ last'.ret = TRUE
        ELSE chain' = chain /\ last'.ret = FALSE]_vars

\* A genesis block: index 0, previous_hash "0".
IsGenesis(b) == b.index = 0 /\ b.previous_hash = ZERO_HASH

\* C2: when the constructor finds the block store empty, or holding a chain
\* that load_chain rejects (invalid, or a block index missing), and returns,
\* it has performed the destructive reset and then created a genesis block:
\* the in-memory chain and the blocks table each hold exactly one block, a
\* genesis block, the transactions table holds only its transaction and the
\* mempool table is empty.
C2_FailSafeToGenesis ==
    [][(last'.op = "Blockchain" /\ bc' = "Ready" /\ load_chain(db) = <<>>) =>
        /\ last'.reset
        /\ Len(chain') = 1
        /\ IsGenesis(chain'[1])
        /\ Len(db'.blocks) = 1
        /\ IsGenesis(db'.blocks[1])
        /\ db'.blocks[1].hash = chain'[1].hash
        /\ Len(db'.txs) = 1
        /\ db'.mempool = {}]_vars

\* The stored form of a block: its row in the blocks table.
Row(b) == [b EXCEPT !.transactions = <<>>]

\* C3: add_block appends the new block to the in-memory chain only with both
\* save_block and save_transactions_bulk done (the block's row and all its
\* transactions are in the tables); when either call fails, add_block returns
\* None and the chain is what it was.
C3_AppendOnlyAfterPersistence ==
    [][last'.op = "add_block" =>
        /\ chain' # chain =>
            /\ last'.ret # None
            /\ chain' = Append(chain, last'.ret[1])
            /\ db'.blocks = Append(db.blocks, Row(last'.ret[1]))
            /\ TxsOf(db'.txs, Len(db'.blocks)) = last'.transactions
        /\ last'.fail # "none" => last'.ret = None /\ chain' = chain]_vars

\* C3's case: a persistence call of add_block failed after the block was mined.
C3_Witness ==
    /\ last.op = "add_block"
    /\ last.fail = "save_transactions_bulk"
    /\ last.saves = 2
    /\ last.ret = None

\* What a successful add_transaction does to the pool and the mempool table.
Admitted(pool, pool1, d, d1, tx) ==
    /\ pool1 = Append(pool, tx)
    /\ d1 = [d EXCEPT !.mempool = @ \cup {tx.tx_hash}]

\* C4: add_transaction is all-or-nothing: either it returns True with the
\* transaction inserted, persisted and broadcast, or it returns False with
\* the mapping and the mempool table unchanged and no broadcast made.
C4_AddTransactionAllOrNothing ==
    [][last'.op = "add_transaction" =>
        IF last'.ret
        THEN /\ Admitted(transactions, transactions', db, db', last'.tx)
             /\ last'.broadcast = <<last'.tx>>
        ELSE /\ transactions' = transactions
             /\ db' = db
             /\ last'.broadcast = <<>>]_vars

\* C5: the mapping never holds more than max_size entries, and an
\* add_transaction call made on a pool of max_size or more entries returns
\* False, inserts nothing, evicts nothing, persists nothing and broadcasts
\* nothing.
C5_CapacityRejectsNew ==
    /\ Len(transactions) <= max_size
    /\ [][/\ Len(transactions') <= max_size
          /\ (last'.op = "add_transaction" /\ Len(transactions) >= max_size) =>
                /\ last'.ret = FALSE
                /\ transactions' = transactions
                /\ db' = db
                /\ last'.broadcast = <<>>]_vars

\* C5's case: a well-formed transaction that is not in the pool was rejected
\* by a full pool.
C5_Witness ==
    /\ last.op = "add_transaction"
    /\ ~invalid_hash(last.tx)
    /\ last.tx.tx_hash \notin PoolHashes(transactions)
    /\ Len(transactions) = max_size
    /\ last.ret = FALSE
    /\ last.fail = "none"

\* C6: an add_transaction call for a tx_hash that is a key of the mapping
\* returns False and leaves the mapping and the mempool table unchanged, with
\* no broadcast: the hash stays in the mapping once.
C6_DuplicateRejected ==
    [][(last'.op = "add_transaction" /\ last'.tx.tx_hash \in PoolHashes(transactions)) =>
        /\ last'.ret = FALSE
        /\ transactions' = transactions
        /\ db' = db
        /\ last'.broadcast = <<>>
        /\ Cardinality({i \in 1..Len(transactions') :
                           transactions'[i].tx_hash = last'.tx.tx_hash}) = 1]_vars

\* C6's case: a well-formed transaction that is in the pool was submitted
\* again, with nothing failing.
C6_Witness ==
    /\ last.op = "add_transaction"
    /\ ~invalid_hash(last.tx)
    /\ last.tx \in Range(transactions)
    /\ last.ret = FALSE
    /\ last.fail = "none"
    /\ Len(transactions) < max_size

\* C7: an add_transaction call that returns True made exactly one
\* broadcast_transaction call, for its transaction; a call rejected for a
\* hash mismatch, a duplicate hash or a full pool made none.
C7_BroadcastOncePerAdmission ==
    [][last'.op = "add_transaction" =>
        /\ last'.ret => last'.broadcast = <<last'.tx>>
        /\ (\/ last'.tx.tx_hash = None
            \/ last'.tx.tx_hash # calculate_hash(last'.tx)
            \/ last'.tx.tx_hash \in PoolHashes(transactions)
            \/ Len(transactions) >= max_size) => last'.broadcast = <<>>]_vars

\* C7's case: a transaction was admitted.
C7_Witness ==
    /\ last.op = "add_transaction"
    /\ last.ret = TRUE
    /\ last.tx \in Range(transactions)
    /\ last.tx.tx_hash \in db.mempool

\* Block 0 is a genesis block and every later block has the index after its
\* predecessor's and names its predecessor's hash.
LinkedChain(ch) ==
    /\ ch # <<>>
    /\ IsGenesis(ch[1])
    /\ \A i \in 2..Len(ch) :
        /\ ch[i].index = ch[i - 1].index + 1
        /\ ch[i].previous_hash = ch[i - 1].hash

\* C8: in every state after construction the in-memory chain is non-empty,
\* starts with a genesis block (index 0, previous_hash "0") and is linked
\* block to block by index and previous_hash; a successful add_block
\* lengthens it by exactly the returned block and keeps the earlier blocks.
C8_ChainStaysLinked ==
    /\ [](bc = "Ready" => LinkedChain(chain))
    /\ [][(last'.op = "add_block" /\ last'.ret # None) =>
            /\ Len(chain') = Len(chain) + 1
            /\ SubSeq(chain', 1, Len(chain)) = chain
            /\ chain'[Len(chain')] = last'.ret[1]]_vars

\* C8's case: add_block succeeded on a chain that add_block had already
\* extended.
C8_Witness ==
    /\ last.op = "add_block"
    /\ last.ret # None
    /\ Len(chain) = 3
    /\ chain[3] = last.ret[1]

\* C9: add_block with an empty batch, or on a chain with no last block,
\* returns None with no proof-of-work run, no persistence call made and the
\* chain and the tables unchanged. The chain of a constructed Blockchain is
\* never empty, so the second case is stated of add_block itself, on the
\* empty chain, for every batch, key and fault, in every reachable state of
\* the tables.
C9_RejectedBeforeAnyWork ==
    [][/\ (last'.op = "add_block" /\ (last'.transactions = <<>> \/ chain = <<>>)) =>
            /\ last'.ret = None
            /\ last'.pow = 0
            /\ last'.saves = 0
            /\ chain' = chain
            /\ db' = db
       /\ \A txs \in Batches, key \in Keys, fail \in AddBlockFaults :
            add_block(<<>>, db, DEFAULT_DIFFICULTY, txs, key, now, fail)
                = [ret |-> None, chain |-> <<>>, db |-> db, pow |-> 0, saves |-> 0]]_vars

\* C9's case: add_block was called with an empty batch.
C9_Witness ==
    /\ last.op = "add_block"
    /\ last.transactions = <<>>
    /\ last.ret = None
    /\ last.pow = 0

\* C10: for max_count >= 0, get_transactions returns min(max_count, pool
\* size) distinct pool entries in ascending timestamp order, omits no pool
\* entry older than one it returns, and leaves the mapping and the mempool
\* table unchanged.
C10_OldestFirst ==
    [][(last'.op = "get_transactions" /\ last'.max_count >= 0) =>
        LET ret == last'.ret
            n == Len(transactions)
        IN  /\ Len(ret) = IF last'.max_count < n THEN last'.max_count ELSE n
            /\ Range(ret) \subseteq Range(transactions)
            /\ Cardinality(Range(ret)) = Len(ret)
            /\ \A i, j \in 1..Len(ret) : i < j => ret[i].timestamp <= ret[j].timestamp
            /\ \A tx \in Range(transactions) \ Range(ret) :
                 \A i \in 1..Len(ret) : ret[i].timestamp <= tx.timestamp
            /\ transactions' = transactions
            /\ db' = db]_vars

\* C10's case: the pool holds a newer transaction inserted before an older
\* one, and get_transactions(1) returned the older one.
C10_Witness ==
    /\ last.op = "get_transactions"
    /\ last.max_count = 1
    /\ Len(transactions) = 2
    /\ transactions[1].timestamp > transactions[2].timestamp
    /\ last.ret = <<transactions[2]>>

\* The timestamp column of a mempool row (the row of a transaction admitted
\* by add_transaction, whose tx_hash is its content hash).
RowTimestamp(h) == h[2]

\* The mapping's entries and the table's rows that are older than ttl at time t.
ExpiredKeys(pool, t, ttl) ==
    {pool[i].tx_hash : i \in {j \in 1..Len(pool) : t - pool[j].timestamp > ttl}}
ExpiredRows(d, t, ttl) == {h \in d.mempool : t - RowTimestamp(h) > ttl}

\* C11: a clear_expired(ttl) call in which nothing fails removes from the
\* mapping and from the mempool table exactly the entries with
\* now - timestamp > ttl and leaves every other entry as it was; a second
\* call right after it changes nothing.
C11_ClearExpiredExact ==
    [][(last'.op = "clear_expired" /\ last'.fail = "none") =>
        LET ttl == last'.expiry_seconds
        IN  /\ ~last'.raised
            /\ transactions' =
                 SelectSeq(transactions,
                           LAMBDA tx : tx.tx_hash \notin ExpiredKeys(transactions, now, ttl))
            /\ db'.mempool = db.mempool \ ExpiredRows(db, now, ttl)
            /\ db'.blocks = db.blocks /\ db'.txs = db.txs
            /\ clear_expired(transactions', db', now, ttl, "none")
                 = [raised |-> FALSE, transactions |-> transactions', db |-> db']]_vars

\* C11's case: clear_expired ran with nothing failing while the mempool table
\* held an expired row.
C11_Witness ==
    /\ last.op = "clear_expired"
    /\ last.fail = "none"
    /\ ExpiredRows(db, now, last.expiry_seconds) # {}

\* C12: a remove_transactions(tx_hashes) call that returns has removed
\* exactly the listed hashes from the mapping and from the mempool table and
\* left every other entry, and the other tables, as they were; a listed hash
\* that is absent or listed twice changes nothing more, and the same call
\* made again changes nothing.
C12_RemoveExactlyListed ==
    [][(last'.op = "remove_transactions" /\ ~last'.raised) =>
        LET listed == Range(last'.tx_hashes)
        IN  /\ transactions' =
                 SelectSeq(transactions, LAMBDA tx : tx.tx_hash \notin listed)
            /\ db' = [db EXCEPT !.mempool = @ \ listed]
            /\ remove_transactions(transactions', db', last'.tx_hashes, "none")
                 = [raised |-> FALSE, transactions |-> transactions', db |-> db']]_vars

\* C12's case: remove_transactions returned for a list that names one hash
\* twice, while another transaction stays in the mapping and in the table.
C12_Witness ==
    /\ last.op = "remove_transactions"
    /\ ~last.raised
    /\ last.tx_hashes = <<Tx(1, 1).tx_hash, Tx(1, 1).tx_hash>>
    /\ transactions = <<Tx(2, 0)>>
    /\ db.mempool = {Tx(2, 0).tx_hash}

\* C13: a resolve_conflicts call that returns False leaves the in-memory
\* chain (and the tables) exactly as they were, and a call that changes the
\* chain leaves it equal to one candidate chain as a whole: the chain after
\* the call is never a mix of old and candidate blocks.
C13_NoPartialReplacement ==
    [][last'.op = "resolve_conflicts" =>
        /\ last'.ret = FALSE => (chain' = chain /\ db' = db)
        /\ chain' # chain =>
             /\ last'.ret = TRUE
             /\ chain' \in {ChainAt(n) : n \in Range(last'.nodes)}]_vars

\* C13's case: resolve_conflicts returned False on a chain of two blocks when
\* the node offered a lighter chain of one block.
C13_Witness ==
    /\ last.op = "resolve_conflicts"
    /\ last.nodes = <<"one">>
    /\ last.ret = FALSE
    /\ Len(chain) = 2

\* C14: the constructor is the only step from Uninitialized to Ready; it
\* raises only if the reset fails or the genesis creation that follows the
\* reset fails, whatever failed in init_db, in loading or in the first
\* genesis attempt, and whenever it returns the chain is non-empty and valid.
\* Stated of the constructor for every fault combination in every reachable
\* state of the tables, and of each constructor call of a run.
C14_RaisesOnlyWhenRecoveryFails ==
    /\ [](bc = "Uninitialized" =>
            \A f \in InitFaults :
                LET r == Blockchain_init(db, DEFAULT_DIFFICULTY, now, f)
                IN  /\ r.raised => (f.reset \/ f.genesis2 # "none")
                    /\ ~r.raised => (r.chain # <<>> /\ is_chain_valid(r.chain)))
    /\ [][/\ bc' # bc =>
                \/ bc = "Uninitialized" /\ last'.op = "Blockchain"
                \/ bc' = "Uninitialized" /\ last'.op = "restart"
          /\ last'.op = "Blockchain" =>
                /\ bc' = (IF last'.raised THEN "Failed" ELSE "Ready")
                /\ ~last'.raised => (chain' # <<>> /\ is_chain_valid(chain'))]_vars

\* C14's case: the constructor returned after something failed and the reset
\* and the genesis creation after it worked.
C14_Witness ==
    /\ last.op = "Blockchain"
    /\ ~last.raised
    /\ last.reset
    /\ bc = "Ready"
    /\ Len(chain) = 1

\* C15: with add_block calls of several threads interleaved, the chain of a
\* constructed Blockchain never holds two blocks of the same index nor a
\* block whose previous_hash is not the hash of the block before it (which
\* is what an append that re-validates the tip and discards a stale block
\* ensures).
C15_NoStaleAppend ==
    bc = "Ready" =>
        /\ LinkedChain(chain)
        /\ \A i, j \in 1..Len(chain) : i < j => chain[i].index # chain[j].index

\* C16: with add_transaction calls of several threads interleaved, the
\* mapping never holds more than max_size entries (which is what a capacity
\* check that is atomic with the insert ensures).
C16_CapacityUnderConcurrency ==
    Cardinality(PoolHashes(transactions)) <= max_size

\* The tables hold exactly the chain ch: one row per block, in order, each
\* with all of its block's transactions.
PersistedAs(d, ch) ==
    /\ Len(d.blocks) = Len(ch)
    /\ \A p \in 1..Len(d.blocks) :
        /\ p <= Len(ch) => d.blocks[p] = Row(ch[p])
        /\ p <= Len(ch) => TxsOf(d.txs, p) = ch[p].transactions
    /\ \A q \in 1..Len(d.txs) : d.txs[q].block_id \in 1..Len(d.blocks)

\* C17: an add_block call made when the tables hold exactly the in-memory
\* chain leaves them holding exactly the in-memory chain, whether it
\* succeeds or fails at save_block or at save_transactions_bulk: no block
\* row without its transactions, no row that is not in the chain, no two
\* rows of one index.
C17_BlockPersistenceAllOrNothing ==
    [][(last'.op = "add_block" /\ PersistedAs(db, chain)) =>
        /\ PersistedAs(db', chain')
        /\ \A p, q \in 1..Len(db'.blocks) :
             p < q => db'.blocks[p].index # db'.blocks[q].index]_vars

\* C17's case: add_block failed at save_transactions_bulk after save_block
\* had stored the block's row.
C17_Witness ==
    /\ last.op = "add_block"
    /\ last.fail = "save_transactions_bulk"
    /\ last.ret = None
    /\ Len(db.blocks) = Len(chain) + 1

\* b, with the transactions txs, is what proof-of-work returns for the block
\* built from b's header fields: nonce and hash are the mined ones.
MinedFrom(b, txs) ==
    LET mined == proof_of_work(Block(b.index, b.timestamp, txs, b.previous_hash, b.difficulty))
    IN  b.nonce = mined.nonce /\ b.hash = mined.hash

\* b carries key's public key as validator and key's signature over b.hash.
SignedBy(b, key) ==
    /\ b.validator = public_key(key)
    /\ b.block_signature = sign(key, b.hash)
    /\ verify_signature(b.validator, b.block_signature, b.hash)

\* The rows a call added to the blocks table and the blocks it appended.
NewRows(d, d1) == {d1.blocks[p] : p \in (Len(d.blocks) + 1)..Len(d1.blocks)}
NewBlocks(ch, ch1) == {ch1[i] : i \in (Len(ch) + 1)..Len(ch1)}

\* C18: every block row add_block stores and every block it appends is a
\* non-genesis block that is mined (nonce and hash are the proof-of-work's
\* for its header and batch) and then signed (validator is the caller's
\* public key, block_signature its signature over the mined hash), and a
\* block is appended only when its row is stored; the genesis block of a
\* constructed chain is mined and has no validator and no signature, and
\* every later block of it is mined and signed.
C18_MinedSignedPersistedAppended ==
    [][/\ last'.op = "add_block" =>
            /\ \A r \in NewRows(db, db') :
                 /\ r.index # 0
                 /\ MinedFrom(r, last'.transactions)
                 /\ SignedBy(r, last'.key)
            /\ \A b \in NewBlocks(chain, chain') :
                 /\ b.index # 0
                 /\ MinedFrom(b, b.transactions)
                 /\ SignedBy(b, last'.key)
                 /\ Row(b) \in NewRows(db, db')
       /\ (last'.op = "Blockchain" /\ bc' = "Ready") =>
            /\ IsGenesis(chain'[1])
            /\ MinedFrom(chain'[1], chain'[1].transactions)
            /\ chain'[1].validator = 0
            /\ chain'[1].block_signature = None
            /\ \A i \in 2..Len(chain') :
                 /\ MinedFrom(chain'[i], chain'[i].transactions)
                 /\ \E key \in Keys : SignedBy(chain'[i], key)]_vars

\* C18's case: add_block stored and appended a block on top of a mined,
\* unsigned genesis block.
C18_Witness ==
    /\ last.op = "add_block"
    /\ last.ret # None
    /\ Len(chain) = 2
    /\ SignedBy(chain[2], last.key)
    /\ chain[1].validator = 0
    /\ Row(chain[2]) \in Range(db.blocks)

\* C19: when add_block succeeds on the batch that the get_transactions call
\* right before it returned, the batch's transactions are no longer in the
\* Mempool afterwards, neither in the mapping nor in the mempool table.
C19_ConfirmedLeaveMempool ==
    [][(/\ last.op = "get_transactions"
        /\ last'.op = "add_block"
        /\ last'.transactions = last.ret
        /\ last'.ret # None) =>
            \A tx \in Range(last'.transactions) :
                /\ tx.tx_hash \notin PoolHashes(transactions')
                /\ tx.tx_hash \notin db'.mempool]_vars

\* C19's case: add_block succeeded on the two transactions that
\* get_transactions had just returned from the pool.
C19_Witness ==
    /\ last.op = "add_block"
    /\ last.ret # None
    /\ last.transactions # <<>>
    /\ get_transactions(transactions, 2) = last.transactions

\* The mapping's keys are the mempool table's rows.
InSync(pool, d) == PoolHashes(pool) = d.mempool

\* C20: between mempool calls the keys of the mapping are the rows of the
\* mempool table: it is so when the constructor returns, whatever the table
\* held, and add_transaction, remove_transactions and clear_expired keep it
\* so, whether they return or fail in a persistence call.
C20_MemoryMatchesStore ==
    [][/\ last'.op = "Mempool" => InSync(transactions', db')
       /\ (/\ last'.op \in {"add_transaction", "remove_transactions", "clear_expired"}
           /\ InSync(transactions, db)) => InSync(transactions', db')]_vars

\* C20's case: a Mempool was constructed over a mempool table that holds rows.
C20_Witness ==
    /\ last.op = "Mempool"
    /\ mp = "Ready"
    /\ db.mempool # {}

====
